---- MODULE Spec2Model ----
(***************************************************************************)
(* Authentication and session issuance of the backend: the Credential     *)
(* Store (table users), the Auth Service (services/authService.ts), the   *)
(* controllers in front of it, the global error handler and the           *)
(* authenticate middleware.  Every request is a process that steps at its *)
(* store accesses, so concurrent requests interleave as awaits allow.     *)
(***************************************************************************)
EXTENDS Integers, Sequences, FiniteSets, TLC

(* ---------------------------------------------------------------- bounds *)
MaxReq == 2
MaxTicks == 2
MaxCalls == 2
MaxRedirects == 3

Reqs == 1..MaxReq

(* ------------------------------------------------------- option values *)
None == <<>>
Some(x) == <<x>>

(* ------------------------------------------------------- input domains *)
\* strings the code inspects character by character are character sequences
EmailA == <<"a", "@", "x">>
EmailB == <<"b", "@", "x">>
\* EmailA as a client or an identity provider may spell it
EmailUpper == <<"A", "@", "x">>
NoEmail == <<>>
Emails == {EmailA, EmailB}
RawEmails == Emails \cup {EmailUpper}
GoogleEmails == {EmailA, EmailUpper, NoEmail}
NameAna == <<"A", "n">>
RegisterNames == {NameAna}
\* the Google profiles: one without name and picture, one with a name only,
\* one with both
GooglePayloads == {[name |-> <<>>, picture |-> None],
                   [name |-> <<"H">>, picture |-> None],
                   [name |-> <<"G">>, picture |-> Some("pic")]}
Passwords == {"Passw0rd1", "Other0pw2"}
LoginPasswords == Passwords \cup {""}
Salts == {1, 2}

(* ------------------------------------------------------ program values *)
ExpiresInSeconds == 7 * 24 * 60 * 60
JWT_SECRET == "JWT_SECRET"
UsuarioDeGoogle == <<"U", "s", "u", "a", "r", "i", "o", " ", "d", "e", " ",
                     "G", "o", "o", "g", "l", "e">>
EMAIL_ALREADY_EXISTS == "El correo electronico ya esta registrado"
WRONG_PROVIDER == "Por favor, inicia sesion con el metodo de autenticacion correcto"
OTHER_PROVIDER == "Este correo ya esta registrado con otro metodo de autenticacion"

(* ------------------------------------------------------------ the state *)
VARIABLES
    users,      \* the Credential Store: the rows of table users
    nextId,     \* the autoincrement sequence of users.id
    nowMs,      \* Date.now()
    ticks,      \* how often the clock has advanced
    pc,         \* pc[r]: where request r stands
    req,        \* req[r]: the operation and arguments of request r
    found,      \* found[r]: what the lookup of request r returned
    resp,       \* resp[r]: what request r returned and answered
    api,        \* the browser's axios client: its calls, session and location
    nav,        \* a navigation passing through a Next.js route guard
    session,    \* the NextAuth token and the session the browser is shown
    mw          \* a request passing through the Express middlewares

backend == <<users, nextId, nowMs, ticks, pc, req, found, resp>>
frontend == <<api, nav, session>>
vars == <<users, nextId, nowMs, ticks, pc, req, found, resp, api, nav,
          session, mw>>

(* ------------------------------------------------------ Password Hasher *)
\* bcrypt.hash(password, SALT_ROUNDS): a salted hash of the plaintext
BcryptHash(password, salt) == <<salt, password>>

\* the password_hash of OAuth-only accounts: the empty string
EmptyHash == <<>>

\* bcrypt.compare(password, hash): false for a string that is no bcrypt hash
BcryptCompare(password, hash) == Len(hash) = 2 /\ hash[2] = password

(* --------------------------------------------------------- Token Issuer *)
NowSec == nowMs \div 1000

NoToken == [kind |-> "none", userId |-> "", role |-> "", iat |-> 0, exp |-> 0,
            secret |-> ""]

\* jwt.sign(payload, secret, {expiresIn}): exp = iat + expiresIn
JwtSign(userIdStr, role, iat, secret) ==
    [kind |-> "jwt", userId |-> userIdStr, role |-> role, iat |-> iat,
     exp |-> iat + ExpiresInSeconds, secret |-> secret]

generateToken(userId, role) ==
    JwtSign(ToString(userId), role, NowSec, JWT_SECRET)

\* faulty variant: the check of JWT_SECRET in generateToken is inverted
generateTokenThrowsInverted == JWT_SECRET # ""

\* generateToken throws when JWT_SECRET is not set (authService.ts 54-58);
\* the module refuses to load without it (lines 24-28), and jwt.sign takes
\* the payload of two strings and a number with HS256 as it is
generateTokenThrows == JWT_SECRET = ""

(* --------------------------------------------------------------- errors *)
NoErr == [name |-> "", code |-> "", statusCode |-> 0, isOperational |-> FALSE,
          errorType |-> "", message |-> "", type |-> "undefined"]

\* AppError: statusCode and isOperational; createError adds errorType only
createError(message, statusCode, errorType) ==
    [name |-> "Error", code |-> "", statusCode |-> statusCode,
     isOperational |-> TRUE, errorType |-> errorType, message |-> message,
     type |-> "undefined"]

unauthorized(message) == createError(message, 401, "UNAUTHORIZED")

\* the unique-constraint violation Prisma throws on users.email
PrismaP2002 ==
    [name |-> "PrismaClientKnownRequestError", code |-> "P2002",
     statusCode |-> 0, isOperational |-> FALSE, errorType |-> "",
     message |-> "Unique constraint failed", type |-> "undefined"]

\* new Error('JWT_SECRET no esta configurado'), thrown by generateToken
JwtSecretError ==
    [name |-> "Error", code |-> "", statusCode |-> 0, isOperational |-> FALSE,
     errorType |-> "", message |-> "JWT_SECRET no esta configurado",
     type |-> "undefined"]

\* the global error middleware: status, envelope error.type and message
errorHandler(err) ==
    LET statusCode == IF err.statusCode = 0 THEN 500 ELSE err.statusCode
    IN  IF err.name = "ValidationError"
        THEN [status |-> 400, type |-> "VALIDATION_ERROR",
              message |-> "Error de validacion"]
        ELSE IF err.code = "P2002"
        THEN [status |-> 409, type |-> "CONFLICT",
              message |-> "El recurso ya existe"]
        ELSE IF err.name = "JsonWebTokenError"
        THEN [status |-> 401, type |-> "UNAUTHORIZED",
              message |-> "Token invalido"]
        ELSE IF err.name = "TokenExpiredError"
        THEN [status |-> 401, type |-> "UNAUTHORIZED",
              message |-> "Token expirado"]
        ELSE IF err.isOperational
        THEN [status |-> statusCode,
              type |-> IF err.errorType = "" THEN "INTERNAL_SERVER_ERROR"
                       ELSE err.errorType,
              message |-> err.message]
        ELSE [status |-> statusCode, type |-> "INTERNAL_SERVER_ERROR",
              message |-> "Error interno del servidor"]

(* ----------------------------------------------------- Credential Store *)
\* faulty variant: the lookup also filters on the LOCAL provider
FindByEmailLocal(email) ==
    IF \E u \in users : u.email = email /\ u.auth_provider = "LOCAL"
    THEN Some(CHOOSE u \in users : u.email = email
                                   /\ u.auth_provider = "LOCAL")
    ELSE None

\* prisma.users.findUnique({where: {email}})
FindByEmail(email) ==
    IF \E u \in users : u.email = email
    THEN Some(CHOOSE u \in users : u.email = email)
    ELSE None

\* prisma.users.findUnique({where: {id}})
FindById(id) ==
    IF \E u \in users : u.id = id
    THEN Some(CHOOSE u \in users : u.id = id)
    ELSE None

\* faulty variant: the email column without its unique constraint
EmailTakenNever(email) == FALSE

\* users.email is @unique: a create for a stored email is refused
EmailTaken(email) == \E u \in users : u.email = email

\* faulty variant: the create omits password_hash, so the column default '' is stored
NewUserNoHash(name, email, hash, provider, verified, avatar) ==
    [id |-> nextId, name |-> name, email |-> email,
     password_hash |-> EmptyHash, role |-> "USER",
     auth_provider |-> provider, created_at |-> nowMs, updated_at |-> nowMs,
     avatar_url |-> avatar, email_verified |-> verified]

\* a new row: id from the sequence, role defaults to USER
NewUser(name, email, hash, provider, verified, avatar) ==
    [id |-> nextId, name |-> name, email |-> email, password_hash |-> hash,
     role |-> "USER", auth_provider |-> provider, created_at |-> nowMs,
     updated_at |-> nowMs, avatar_url |-> avatar, email_verified |-> verified]

(* ------------------------------------------------- responses of requests *)
NoReq == [op |-> "none", ctl |-> "", email |-> <<>>, name |-> <<>>,
          password |-> "", avatar |-> None, id |-> 0, header |-> None,
          cookie |-> None]

NoResp == [ok |-> FALSE, err |-> NoErr, token |-> NoToken, user |-> None,
           status |-> 0, type |-> "", message |-> "", cookie |-> None,
           reqUser |-> None]

\* what a service function gives back: {token, user} or a thrown error
SvcOk(token, user) == [ok |-> TRUE, err |-> NoErr, token |-> token,
                       user |-> Some(user)]
SvcErr(err) == [ok |-> FALSE, err |-> err, token |-> NoToken, user |-> None]

\* next(err): the request is answered by the global error handler
Failed(err) ==
    LET h == errorHandler(err)
    IN  [NoResp EXCEPT !.err = err, !.status = h.status, !.type = h.type,
                       !.message = h.message]

\* res.status(status).json(...) after the service returned svc
Succeeded(status, svc, cookie) ==
    [NoResp EXCEPT !.ok = TRUE, !.token = svc.token, !.user = svc.user,
                   !.status = status, !.cookie = cookie]

\* res.cookie('token', value): a JWT string, or an object sent as JSON
CookieOf(token, asJson) == Some([json |-> asJson, token |-> token])

(* ----------------------------------------------------------------- Init *)
\* rows a database may hold when the server starts: for EmailA a local
\* account (promoted to ADMIN in the database) or a Google account whose
\* owner has set a name and an avatar
InitLocal == [id |-> 1, name |-> NameAna, email |-> EmailA,
              password_hash |-> BcryptHash("Passw0rd1", 1), role |-> "ADMIN",
              auth_provider |-> "LOCAL", created_at |-> 0, updated_at |-> 0,
              avatar_url |-> None, email_verified |-> FALSE]
InitGoogle == [id |-> 1, name |-> <<"E", "d">>, email |-> EmailA,
               password_hash |-> EmptyHash, role |-> "USER",
               auth_provider |-> "GOOGLE", created_at |-> 0, updated_at |-> 0,
               avatar_url |-> Some("old"), email_verified |-> TRUE]
InitStores == {{}, {InitLocal}, {InitGoogle}}

InitBackend ==
    /\ users \in InitStores
    /\ nextId = Cardinality(users) + 1
    /\ nowMs = 0
    /\ ticks = 0
    /\ pc = [r \in Reqs |-> "idle"]
    /\ req = [r \in Reqs |-> NoReq]
    /\ found = [r \in Reqs |-> None]
    /\ resp = [r \in Reqs |-> NoResp]

\* an Express request no middleware has seen yet: req.user is not set
NoMw == [at |-> "idle", fn |-> "", header |-> None, cookie |-> None,
         reqUser |-> None, field |-> "", param |-> None, err |-> NoErr]

\* the browser before any API call: a session, and a page of the app
NoCall == [at |-> "idle", status |-> 0, retry |-> FALSE, sent |-> 0,
           signOuts |-> 0, redirects |-> 0, rejected |-> ""]
NoApi == [calls |-> [c \in 1..MaxCalls |-> NoCall], signedIn |-> TRUE,
          location |-> "/app"]

\* no navigation under way
NoNav == [at |-> "idle", guard |-> "", auth |-> "", start |-> <<>>,
          path |-> <<>>, callbackUrl |-> None, redirects |-> 0]

\* before sign-in: no NextAuth token, no session
NoSession == [at |-> "signedOut", token |-> None, shown |-> None,
              signedInAs |-> None]

InitFrontend == api = NoApi /\ nav = NoNav /\ session = NoSession

Init == InitBackend /\ InitFrontend /\ mw = NoMw

\* requests are served in the order of their arrival: slot r is taken once
\* every lower slot is
CanStart(r) == pc[r] = "idle" /\ \A q \in Reqs : q < r => pc[q] # "idle"

Finish(r, response) ==
    /\ pc' = [pc EXCEPT ![r] = "done"]
    /\ resp' = [resp EXCEPT ![r] = response]

(* ---------------------------------------------------- route validations *)
\* toLowerCase on the letters that occur in the emails of this model
LowerCase(c) == CASE c = "A" -> "a" [] c = "B" -> "b" [] OTHER -> c

\* body('email').normalizeEmail() of registerValidations and
\* loginValidations: the address in lower case (the domain is not one of
\* the providers it rewrites further)
NormalizeEmail(email) == [i \in 1..Len(email) |-> LowerCase(email[i])]

(* --------------------------------------------------------- registerUser *)
\* the user object registerUser returns: the selected columns plus defaults
RegisterView(u) ==
    [id |-> u.id, name |-> u.name, email |-> u.email, role |-> u.role,
     auth_provider |-> u.auth_provider, created_at |-> u.created_at,
     updated_at |-> u.updated_at, avatar_url |-> None,
     email_verified |-> FALSE]

\* POST /register: validate(registerValidations), then registerHandler
\* calls registerUser: the lookup (authService.ts 100-110)
RegisterLookup(r) ==
    /\ CanStart(r)
    /\ \E name \in RegisterNames, raw \in RawEmails, password \in Passwords :
        LET email == NormalizeEmail(raw)
            existingUser == FindByEmail(email)
        IN  /\ req' = [req EXCEPT ![r] =
                  [NoReq EXCEPT !.op = "register", !.ctl = "registerHandler",
                                !.email = email, !.name = name,
                                !.password = password]]
            /\ found' = [found EXCEPT ![r] = existingUser]
            /\ IF existingUser # None
               THEN Finish(r, Failed(createError(EMAIL_ALREADY_EXISTS, 400,
                                                 "AUTH_ERROR")))
               ELSE /\ pc' = [pc EXCEPT ![r] = "reg_create"]
                    /\ UNCHANGED resp
    /\ UNCHANGED <<users, nextId, nowMs, ticks, frontend, mw>>

\* the hash, the create in a transaction and, once that is committed, the
\* token (authService.ts 112-165)
RegisterCreate(r) ==
    /\ pc[r] = "reg_create"
    /\ \E salt \in Salts :
        LET passwordHash == BcryptHash(req[r].password, salt)
            user == NewUser(req[r].name, req[r].email, passwordHash, "LOCAL",
                            FALSE, None)
            token == generateToken(user.id, user.role)
        IN  IF EmailTaken(req[r].email)
            THEN /\ Finish(r, Failed(PrismaP2002))
                 /\ UNCHANGED <<users, nextId>>
            ELSE /\ users' = users \cup {user}
                 /\ nextId' = nextId + 1
                 /\ IF generateTokenThrows
                    THEN Finish(r, Failed(JwtSecretError))
                    ELSE Finish(r, Succeeded(201,
                                    SvcOk(token, RegisterView(user)),
                                    CookieOf(token, TRUE)))
    /\ UNCHANGED <<nowMs, ticks, req, found, frontend, mw>>

(* ------------------------------------------------------------ loginUser *)
\* the user object loginUser and findOrCreateGoogleUser build field by field
LoginView(u, avatar) ==
    [id |-> u.id, name |-> u.name, email |-> u.email, role |-> u.role,
     auth_provider |-> u.auth_provider, created_at |-> u.created_at,
     updated_at |-> u.updated_at, avatar_url |-> avatar,
     email_verified |-> u.email_verified]

\* faulty variant: no provider check before the password comparison
loginUserNoProviderCheck(email, password) ==
    LET user == FindByEmail(email)
    IN  IF user = None
        THEN SvcErr(createError("No existe una cuenta con este correo electronico",
                                401, "AUTH_ERROR"))
        ELSE IF ~BcryptCompare(password, user[1].password_hash)
        THEN SvcErr(createError("Contrasena incorrecta", 401, "AUTH_ERROR"))
        ELSE SvcOk(generateToken(user[1].id, user[1].role),
                   LoginView(user[1], user[1].avatar_url))

\* faulty variant: an unknown email is reported as 404 NOT_FOUND
loginUserNotFound(email, password) ==
    LET user == FindByEmail(email)
    IN  IF user = None
        THEN SvcErr(createError("No existe una cuenta con este correo electronico",
                                404, "NOT_FOUND"))
        ELSE IF user[1].auth_provider # "LOCAL"
        THEN SvcErr(createError(WRONG_PROVIDER, 401, "AUTH_ERROR"))
        ELSE IF ~BcryptCompare(password, user[1].password_hash)
        THEN SvcErr(createError("Contrasena incorrecta", 401, "AUTH_ERROR"))
        ELSE SvcOk(generateToken(user[1].id, user[1].role),
                   LoginView(user[1], user[1].avatar_url))

\* loginUser(email, password) (authService.ts 179-235)
loginUser(email, password) ==
    LET user == FindByEmail(email)
    IN  IF user = None
        THEN SvcErr(createError("No existe una cuenta con este correo electronico",
                                401, "AUTH_ERROR"))
        ELSE IF user[1].auth_provider # "LOCAL"
        THEN SvcErr(createError(WRONG_PROVIDER, 401, "AUTH_ERROR"))
        ELSE IF ~BcryptCompare(password, user[1].password_hash)
        THEN SvcErr(createError("Contrasena incorrecta", 401, "AUTH_ERROR"))
        ELSE SvcOk(generateToken(user[1].id, user[1].role),
                   LoginView(user[1], user[1].avatar_url))

\* loginHandler of the controller with handlers (lines 48-103)
loginHandler(email, password) ==
    IF email = <<>> \/ password = ""
    THEN Failed(createError("Email y contrasena son requeridos", 400,
                            "VALIDATION_ERROR"))
    ELSE LET svc == loginUser(email, password)
         IN  IF svc.ok
             THEN Succeeded(200, svc, CookieOf(svc.token, FALSE))
             ELSE IF svc.err.type = "AUTH_ERROR"
             THEN Failed(unauthorized("Correo o contrasena incorrectos"))
             ELSE Failed(svc.err)

\* login of controllers/authController.ts (lines 27-35)
login(email, password) ==
    LET svc == loginUser(email, password)
    IN  IF svc.ok THEN Succeeded(200, svc, None) ELSE Failed(svc.err)

\* POST /login: one lookup, no write; the route of loginHandler runs
\* validate(loginValidations) first, the route of login does not
Login(r) ==
    /\ CanStart(r)
    /\ \E ctl \in {"loginHandler", "login"}, raw \in RawEmails,
          password \in LoginPasswords :
      LET email == IF ctl = "loginHandler" THEN NormalizeEmail(raw) ELSE raw
      IN
        /\ req' = [req EXCEPT ![r] =
              [NoReq EXCEPT !.op = "login", !.ctl = ctl, !.email = email,
                            !.password = password]]
        /\ found' = [found EXCEPT ![r] = FindByEmail(email)]
        /\ Finish(r, IF ctl = "loginHandler" THEN loginHandler(email, password)
                     ELSE login(email, password))
    /\ UNCHANGED <<users, nextId, nowMs, ticks, frontend, mw>>

(* ---------------------------------------------------- resetUserPassword *)
\* faulty variant: the update also writes the provider of the current login path
UpdateUserProvider(u, hash, name, avatar) ==
    [u EXCEPT !.password_hash = hash, !.name = name, !.avatar_url = avatar,
              !.updated_at = nowMs, !.auth_provider = "GOOGLE"]

\* faulty variant: the update writes its columns and leaves updated_at as it was
UpdateUserNoTouch(u, hash, name, avatar) ==
    [u EXCEPT !.password_hash = hash, !.name = name, !.avatar_url = avatar]

\* faulty variant: the update leaves password_hash out of its data
UpdateUserKeepHash(u, hash, name, avatar) ==
    [u EXCEPT !.name = name, !.avatar_url = avatar, !.updated_at = nowMs]

\* prisma.users.update: the given columns, and updated_at by @updatedAt
UpdateUser(u, hash, name, avatar) ==
    [u EXCEPT !.password_hash = hash, !.name = name, !.avatar_url = avatar,
              !.updated_at = nowMs]

\* faulty variant: the lookup checks that the account exists, not its provider
ResetLookupAnyProvider(r) ==
    /\ CanStart(r)
    /\ \E email \in Emails, newPassword \in Passwords :
        LET user == FindByEmail(email)
        IN  /\ req' = [req EXCEPT ![r] =
                  [NoReq EXCEPT !.op = "reset", !.ctl = "resetPassword",
                                !.email = email, !.password = newPassword]]
            /\ found' = [found EXCEPT ![r] = user]
            /\ IF user = None
               THEN Finish(r, Failed(createError(
                        "Usuario no encontrado o no usa autenticacion local",
                        404, "AUTH_ERROR")))
               ELSE /\ pc' = [pc EXCEPT ![r] = "reset_update"]
                    /\ UNCHANGED resp
    /\ UNCHANGED <<users, nextId, nowMs, ticks, frontend, mw>>

\* POST /reset-password: the lookup (authService.ts 281-288)
ResetLookup(r) ==
    /\ CanStart(r)
    /\ \E email \in Emails, newPassword \in Passwords :
        LET user == FindByEmail(email)
        IN  /\ req' = [req EXCEPT ![r] =
                  [NoReq EXCEPT !.op = "reset", !.ctl = "resetPassword",
                                !.email = email, !.password = newPassword]]
            /\ found' = [found EXCEPT ![r] = user]
            /\ IF user = None \/ user[1].auth_provider # "LOCAL"
               THEN Finish(r, Failed(createError(
                        "Usuario no encontrado o no usa autenticacion local",
                        404, "AUTH_ERROR")))
               ELSE /\ pc' = [pc EXCEPT ![r] = "reset_update"]
                    /\ UNCHANGED resp
    /\ UNCHANGED <<users, nextId, nowMs, ticks, frontend, mw>>

\* the hash and the update by email (authService.ts 290-297)
ResetUpdate(r) ==
    /\ pc[r] = "reset_update"
    /\ \E salt \in Salts :
        LET newHash == BcryptHash(req[r].password, salt)
            u == CHOOSE x \in users : x.email = req[r].email
        IN  users' = (users \ {u}) \cup
                     {UpdateUser(u, newHash, u.name, u.avatar_url)}
    /\ Finish(r, [NoResp EXCEPT !.ok = TRUE, !.status = 200,
                     !.message = "Contrasena actualizada correctamente"])
    /\ UNCHANGED <<nextId, nowMs, ticks, req, found, frontend, mw>>

(* ----------------------------------------------- findOrCreateGoogleUser *)
\* a JavaScript value used as a condition: null and '' are false
Truthy(opt) == opt # None /\ opt[1] # ""

\* email.includes('@')
IncludesAt(email) == \E i \in 1..Len(email) : email[i] = "@"

\* email.split('@')[0]: the characters before the first '@'
RECURSIVE LocalPart(_)
LocalPart(email) ==
    IF email = <<>> \/ Head(email) = "@" THEN <<>>
    ELSE <<Head(email)>> \o LocalPart(Tail(email))

\* String.prototype.trim
RECURSIVE TrimLeft(_)
TrimLeft(str) ==
    IF str # <<>> /\ Head(str) = " " THEN TrimLeft(Tail(str)) ELSE str
RECURSIVE TrimRight(_)
TrimRight(str) ==
    IF str # <<>> /\ str[Len(str)] = " "
    THEN TrimRight(SubSeq(str, 1, Len(str) - 1)) ELSE str
Trim(str) == TrimRight(TrimLeft(str))

\* faulty variant: the name is taken from the provider at every login
GoogleUpdateNameAlways(user, name, email) ==
    Some(IF name # <<>> THEN name ELSE LocalPart(email))

\* the columns the existing-account branch writes (authService.ts 383-393)
GoogleUpdateName(user, name, email) ==
    IF user.name = <<>> \/ user.name = UsuarioDeGoogle
    THEN Some(IF name # <<>> THEN name ELSE LocalPart(email))
    ELSE None
GoogleUpdateAvatar(user, avatar) ==
    IF ~Truthy(user.avatar_url) /\ Truthy(avatar) THEN avatar ELSE None

\* faulty variant: a LOCAL account is linked to the Google identity
OtherProviderLink(user) ==
    user # None /\ user[1].auth_provider \notin {"GOOGLE", "LOCAL"}

\* the account exists under another provider (authService.ts 342)
OtherProvider(user) == user # None /\ user[1].auth_provider # "GOOGLE"

\* token and user object at the end of findOrCreateGoogleUser (409-433)
GoogleResult(user) ==
    SvcOk(generateToken(user.id, user.role),
          LoginView(user, IF Truthy(user.avatar_url) THEN user.avatar_url
                          ELSE None))

\* loginWithGoogle (lines 165-213): every thrown error is answered as 500
GoogleFailed(err) ==
    [Failed(createError("Error al autenticar con Google", 500,
                        "INTERNAL_SERVER_ERROR")) EXCEPT !.err = err]
GoogleSucceeded(svc) == Succeeded(200, svc, CookieOf(svc.token, FALSE))

\* POST /google-login: the payload check and the lookup (a payload without
\* email is taken to carry nothing else)
GoogleLookupOf(r, email, payload) ==
    LET name == IF payload.name = <<>> THEN UsuarioDeGoogle
                ELSE payload.name
        avatar == payload.picture
        user == FindByEmail(email)
    IN  /\ req' = [req EXCEPT ![r] =
              [NoReq EXCEPT !.op = "google", !.ctl = "loginWithGoogle",
                            !.email = email, !.name = name,
                            !.avatar = avatar]]
        /\ found' = [found EXCEPT ![r] = user]
        /\ IF email = NoEmail
           THEN /\ payload.name = <<>>
                /\ Finish(r, Failed(createError(
                       "Token de Google invalido", 400, "AUTH_ERROR")))
           ELSE IF ~IncludesAt(email)
           THEN Finish(r, GoogleFailed(createError(
                    "El correo electronico no es valido", 400,
                    "VALIDATION_ERROR")))
           ELSE IF OtherProvider(user)
           THEN Finish(r, GoogleFailed(createError(OTHER_PROVIDER, 400,
                                                   "AUTH_ERROR")))
           ELSE IF user = None
           THEN /\ pc' = [pc EXCEPT ![r] = "google_create"]
                /\ UNCHANGED resp
           ELSE IF GoogleUpdateName(user[1], name, email) # None
                   \/ GoogleUpdateAvatar(user[1], avatar) # None
           THEN /\ pc' = [pc EXCEPT ![r] = "google_update"]
                /\ UNCHANGED resp
           ELSE Finish(r, GoogleSucceeded(GoogleResult(user[1])))

GoogleLookup(r) ==
    /\ CanStart(r)
    /\ \E email \in GoogleEmails, payload \in GooglePayloads :
        GoogleLookupOf(r, email, payload)
    /\ UNCHANGED <<users, nextId, nowMs, ticks, frontend, mw>>

\* the create of a first Google login (authService.ts 352-380)
GoogleCreate(r) ==
    /\ pc[r] = "google_create"
    /\ LET displayName == IF Trim(req[r].name) # <<>> THEN Trim(req[r].name)
                          ELSE LocalPart(req[r].email)
           user == NewUser(displayName, req[r].email, EmptyHash, "GOOGLE",
                           TRUE, IF Truthy(req[r].avatar) THEN req[r].avatar
                                 ELSE None)
       IN  IF EmailTaken(req[r].email)
           THEN /\ Finish(r, GoogleFailed(createError(
                       "Error al crear el usuario", 500, "DATABASE_ERROR")))
                /\ UNCHANGED <<users, nextId>>
           ELSE /\ users' = users \cup {user}
                /\ nextId' = nextId + 1
                /\ Finish(r, GoogleSucceeded(GoogleResult(user)))
    /\ UNCHANGED <<nowMs, ticks, req, found, frontend, mw>>

\* the update of an existing Google account by id (authService.ts 395-406)
GoogleUpdate(r) ==
    /\ pc[r] = "google_update"
    /\ LET seen == found[r][1]
           newName == GoogleUpdateName(seen, req[r].name, req[r].email)
           newAvatar == GoogleUpdateAvatar(seen, req[r].avatar)
           u == CHOOSE x \in users : x.id = seen.id
           user == UpdateUser(u, u.password_hash,
                              IF newName # None THEN newName[1] ELSE u.name,
                              IF newAvatar # None THEN newAvatar
                              ELSE u.avatar_url)
       IN  /\ users' = (users \ {u}) \cup {user}
           /\ Finish(r, GoogleSucceeded(GoogleResult(user)))
    /\ UNCHANGED <<nextId, nowMs, ticks, req, found, frontend, mw>>

(* ------------------------------------------------------- getUserProfile *)
\* getUserProfile(userId) (authService.ts 243-272): the selected row,
\* spread into the result with the optional columns defaulted
getUserProfile(userId) ==
    LET user == FindById(userId)
    IN  IF user = None
        THEN SvcErr(createError("Usuario no encontrado", 404, "NOT_FOUND"))
        ELSE [ok |-> TRUE, err |-> NoErr, token |-> NoToken,
              user |-> Some([user[1] EXCEPT !.avatar_url =
                                IF Truthy(user[1].avatar_url)
                                THEN user[1].avatar_url ELSE None])]

\* a call of the service function with a numeric user id
GetUserProfile(r) ==
    /\ CanStart(r)
    /\ \E userId \in 1..nextId :
        LET svc == getUserProfile(userId)
        IN  /\ req' = [req EXCEPT ![r] =
                  [NoReq EXCEPT !.op = "profile", !.ctl = "getUserProfile",
                                !.id = userId]]
            /\ found' = [found EXCEPT ![r] = FindById(userId)]
            /\ Finish(r, [NoResp EXCEPT !.ok = svc.ok, !.err = svc.err,
                                        !.user = svc.user])
    /\ UNCHANGED <<users, nextId, nowMs, ticks, frontend, mw>>

(* --------------------------------------------------------- authenticate *)
\* what a client can present: tokens the server issued, a token signed with
\* another secret, a string that is no JWT; cookies the server has set
\* the session tokens of logins at the start, before the requests observed
\* here: one for each account that exists since then
EarlierTokens ==
    {JwtSign(ToString(u.id), u.role, 0, JWT_SECRET) :
        u \in {x \in users : x.created_at = 0}}
IssuedTokens ==
    {resp[q].token : q \in {x \in Reqs : resp[x].token.kind = "jwt"}}
    \cup EarlierTokens
ForgedTokens == {[t EXCEPT !.secret = "other"] : t \in IssuedTokens}
MalformedToken == [NoToken EXCEPT !.kind = "malformed"]
Headers ==
    {None} \cup
    {Some([scheme |-> "Bearer", cred |-> [json |-> FALSE, token |-> t]]) :
        t \in IssuedTokens \cup ForgedTokens \cup {MalformedToken}}
Cookies == {None} \cup {resp[q].cookie : q \in Reqs}

\* faulty variant: the expiry, in seconds, is compared with the clock in milliseconds
JwtVerifyMs(cred) ==
    IF cred.json THEN "JsonWebTokenError"
    ELSE IF cred.token.kind # "jwt" THEN "JsonWebTokenError"
    ELSE IF cred.token.secret # JWT_SECRET THEN "JsonWebTokenError"
    ELSE IF nowMs >= cred.token.exp THEN "TokenExpiredError"
    ELSE ""

\* faulty variant: an expired token is reported with the error class of an invalid one
JwtVerifyExpiredAsInvalid(cred) ==
    IF cred.json THEN "JsonWebTokenError"
    ELSE IF cred.token.kind # "jwt" THEN "JsonWebTokenError"
    ELSE IF cred.token.secret # JWT_SECRET THEN "JsonWebTokenError"
    ELSE IF NowSec >= cred.token.exp THEN "JsonWebTokenError"
    ELSE ""

\* faulty variant: a token that was presented to a logout is refused from then on
JwtVerifyRevoked(cred) ==
    IF cred.json THEN "JsonWebTokenError"
    ELSE IF cred.token.kind # "jwt" THEN "JsonWebTokenError"
    ELSE IF cred.token.secret # JWT_SECRET THEN "JsonWebTokenError"
    ELSE IF \E q \in Reqs :
                /\ pc[q] = "done" /\ req[q].op = "logout" /\ resp[q].ok
                /\ \/ /\ req[q].header # None
                      /\ req[q].header[1].cred = cred
                   \/ req[q].header = None /\ req[q].cookie = Some(cred)
    THEN "JsonWebTokenError"
    ELSE IF NowSec >= cred.token.exp THEN "TokenExpiredError"
    ELSE ""

\* jwt.verify(token, JWT_SECRET): the error it throws, or "" and the payload
JwtVerify(cred) ==
    IF cred.json THEN "JsonWebTokenError"
    ELSE IF cred.token.kind # "jwt" THEN "JsonWebTokenError"
    ELSE IF cred.token.secret # JWT_SECRET THEN "JsonWebTokenError"
    ELSE IF NowSec >= cred.token.exp THEN "TokenExpiredError"
    ELSE ""

\* authHeader.split(' ')[1] of a header that has nothing, or a second
\* blank, behind 'Bearer ': the empty string
EmptyCred == [json |-> FALSE, token |-> NoToken]

\* faulty variant: the catch tests instanceof JsonWebTokenError first, which
\* a TokenExpiredError is too
authenticateInvalidFirst(header, cookie) ==
    LET cred == IF header # None /\ header[1].scheme = "Bearer"
                THEN Some(header[1].cred)
                ELSE cookie
        thrown == JwtVerify(cred[1])
    IN  IF cred = None \/ cred = Some(EmptyCred)
        THEN [err |-> unauthorized("No se proporciono un token de autenticacion"),
              reqUser |-> None]
        ELSE IF thrown \in {"JsonWebTokenError", "TokenExpiredError"}
        THEN [err |-> unauthorized("Token invalido"), reqUser |-> None]
        ELSE [err |-> NoErr,
              reqUser |-> Some([userId |-> cred[1].token.userId,
                                role |-> cred[1].token.role,
                                iat |-> cred[1].token.iat,
                                exp |-> cred[1].token.exp])]

\* faulty variant: the cookie is read whenever the header gives no valid token
authenticateCookieFallback(header, cookie) ==
    LET fromHeader == IF header # None /\ header[1].scheme = "Bearer"
                      THEN Some(header[1].cred)
                      ELSE None
        cred == IF fromHeader # None /\ fromHeader # Some(EmptyCred)
                   /\ JwtVerify(fromHeader[1]) = ""
                THEN fromHeader
                ELSE IF cookie # None THEN cookie
                ELSE fromHeader
        thrown == JwtVerify(cred[1])
    IN  IF cred = None \/ cred = Some(EmptyCred)
        THEN [err |-> unauthorized("No se proporciono un token de autenticacion"),
              reqUser |-> None]
        ELSE IF thrown = "TokenExpiredError"
        THEN [err |-> unauthorized("Token expirado"), reqUser |-> None]
        ELSE IF thrown = "JsonWebTokenError"
        THEN [err |-> unauthorized("Token invalido"), reqUser |-> None]
        ELSE [err |-> NoErr,
              reqUser |-> Some([userId |-> cred[1].token.userId,
                                role |-> cred[1].token.role,
                                iat |-> cred[1].token.iat,
                                exp |-> cred[1].token.exp])]

\* authenticate(req, res, next): next() with req.user set, or next(error)
authenticate(header, cookie) ==
    LET cred == IF header # None /\ header[1].scheme = "Bearer"
                THEN Some(header[1].cred)
                ELSE cookie
        thrown == JwtVerify(cred[1])
    IN  IF cred = None \/ cred = Some(EmptyCred)
        THEN [err |-> unauthorized("No se proporciono un token de autenticacion"),
              reqUser |-> None]
        ELSE IF thrown = "TokenExpiredError"
        THEN [err |-> unauthorized("Token expirado"), reqUser |-> None]
        ELSE IF thrown = "JsonWebTokenError"
        THEN [err |-> unauthorized("Token invalido"), reqUser |-> None]
        ELSE [err |-> NoErr,
              reqUser |-> Some([userId |-> cred[1].token.userId,
                                role |-> cred[1].token.role,
                                iat |-> cred[1].token.iat,
                                exp |-> cred[1].token.exp])]

\* prisma rejects a where-argument of the wrong type before any query
PrismaValidationError ==
    [name |-> "PrismaClientValidationError", code |-> "", statusCode |-> 0,
     isOperational |-> FALSE, errorType |-> "",
     message |-> "Argument id: Invalid value provided", type |-> "undefined"]

\* getProfile (controller lines 116-141) behind authenticate: it hands the
\* userId claim, a string, to getUserProfile
getProfile(reqUser) ==
    IF reqUser[1].userId = ""
    THEN [Failed(unauthorized("No autorizado")) EXCEPT !.reqUser = reqUser]
    ELSE [Failed(PrismaValidationError) EXCEPT !.reqUser = reqUser]

\* GET /profile: authenticate, then getProfile
GetProfile(r) ==
    /\ CanStart(r)
    /\ \E header \in Headers, cookie \in Cookies :
        LET a == authenticate(header, cookie)
        IN  /\ req' = [req EXCEPT ![r] =
                  [NoReq EXCEPT !.op = "profile", !.ctl = "getProfile",
                                !.header = header, !.cookie = cookie]]
            /\ Finish(r, IF a.reqUser = None THEN Failed(a.err)
                         ELSE getProfile(a.reqUser))
    /\ UNCHANGED <<users, nextId, nowMs, ticks, found, frontend, mw>>

(* --------------------------------------------------------------- logout *)
\* POST /logout: authenticate, then logout (controller lines 108-111):
\* res.clearCookie('token') and 200; nothing is read from or written to the
\* store or any token list
Logout(r) ==
    /\ CanStart(r)
    /\ \E header \in Headers, cookie \in Cookies :
        LET a == authenticate(header, cookie)
        IN  /\ req' = [req EXCEPT ![r] =
                  [NoReq EXCEPT !.op = "logout", !.ctl = "logout",
                                !.header = header, !.cookie = cookie]]
            /\ Finish(r, IF a.reqUser = None THEN Failed(a.err)
                         ELSE [NoResp EXCEPT !.ok = TRUE, !.status = 200,
                                  !.message = "Sesion cerrada correctamente",
                                  !.cookie = None, !.reqUser = a.reqUser])
    /\ UNCHANGED <<users, nextId, nowMs, ticks, found, frontend, mw>>

(* --------------------------------------------------- isOwnerOrAdmin *)
\* what a client can send to a route behind the middlewares alone: the
\* headers of above or a Bearer header with an empty token, and any cookie
BearerInputs ==
    Headers \cup {Some([scheme |-> "Bearer", cred |-> EmptyCred])}
CookieInputs ==
    {None} \cup
    {Some([json |-> FALSE, token |-> t]) :
        t \in IssuedTokens \cup ForgedTokens}

\* the route parameter req.params[userIdField]: undefined where the route
\* has no parameter of that name
Fields == {"id", "userId"}
ParamValues == {None, Some("1"), Some("2")}

\* isOwnerOrAdmin(userIdField)(req, res, next): NoErr for next(), or the
\* error handed to next; req.user?.userId is undefined without req.user
isOwnerOrAdmin(reqUser, param) ==
    IF reqUser # None /\ reqUser[1].role = "ADMIN" THEN NoErr
    ELSE IF (IF reqUser = None THEN None ELSE Some(reqUser[1].userId)) # param
    THEN createError("No tienes permisos para acceder a este recurso", 403,
                     "FORBIDDEN")
    ELSE NoErr

\* a request reaches authenticate, mounted first on a route
Authenticate ==
    /\ mw.at = "idle"
    /\ \E header \in BearerInputs, cookie \in CookieInputs :
        LET a == authenticate(header, cookie)
        IN  mw' = [NoMw EXCEPT !.at = IF a.reqUser = None THEN "done"
                                      ELSE "authenticated",
                               !.fn = "authenticate", !.header = header,
                               !.cookie = cookie, !.reqUser = a.reqUser,
                               !.err = a.err]
    /\ UNCHANGED <<backend, frontend>>

\* a request reaches isOwnerOrAdmin(field), mounted behind authenticate or,
\* as in the example of its documentation, alone
IsOwnerOrAdmin ==
    /\ mw.at \in {"idle", "authenticated"}
    /\ \E field \in Fields, param \in ParamValues :
        mw' = [mw EXCEPT !.at = "done", !.fn = "isOwnerOrAdmin",
                         !.field = field, !.param = param,
                         !.err = isOwnerOrAdmin(mw.reqUser, param)]
    /\ UNCHANGED <<backend, frontend>>

(* ------------------------------------------------------- route guards *)
\* a pathname is the sequence of its pieces: "/", the words between, and what
\* is appended to a word; every path below is built by appending to a route
\* of the guards, so that startsWith is the prefix of sequences
StartsWith(p, q) == Len(q) <= Len(p) /\ SubSeq(p, 1, Len(q)) = q
Slash == <<"/">>
Home == <<"/">>
AuthLogin == <<"/", "auth", "/", "login">>
AuthRegister == <<"/", "auth", "/", "register">>
AuthError == <<"/", "auth", "/", "error">>
ApiAuth == <<"/", "api", "/", "auth">>
Dashboard == <<"/", "dashboard">>
Profile == <<"/", "profile">>
ApiPrivate == <<"/", "api", "/", "private">>
Images == <<"/", "images">>

publicRoutes == {AuthLogin, AuthRegister, AuthError, Home, ApiAuth}
publicPaths == {Home, AuthLogin, AuthRegister, AuthError, ApiAuth, Images}
protectedPaths == {Dashboard, Profile, ApiPrivate}

\* the pathnames of the requests: the routes, paths below them, paths that
\* only begin like them (/auth/loginx, /api/authx), pages of the shop and
\* one with an escaped blank (/buscar/a%20b)
Paths ==
    {Home, AuthLogin, AuthRegister, AuthError, ApiAuth, Dashboard, Profile,
     ApiPrivate, Images \o <<"/", "a">>,
     AuthLogin \o <<"/", "x">>, AuthLogin \o <<"x">>,
     AuthRegister \o <<"x">>, ApiAuth \o <<"/", "session">>,
     ApiAuth \o <<"x">>, Dashboard \o <<"/", "orders">>,
     <<"/", "productos">>, <<"/", "carrito">>,
     <<"/", "buscar", "/", "a", "%", "20", "b">>}

\* getToken: the claims of the session cookie, null, or an exception (a
\* Bearer header that is no URI component, a secret that is not set)
TokenResults == {"token", "null", "throws"}

\* encodeURI leaves letters, digits and "/" alone and escapes "%" as "%25"
EncodeURI(p) == [i \in 1..Len(p) |-> IF p[i] = "%" THEN "%25" ELSE p[i]]

\* config.matcher: the paths the guard is run for (no path here has a dot
\* or lies below /_next)
Matcher(guard, p) == guard = "root" => ~StartsWith(p, ApiAuth)

GuardNext == [kind |-> "next", to |-> <<>>, callbackUrl |-> None]
GuardError == [kind |-> "error", to |-> <<>>, callbackUrl |-> None]
GuardRedirect(to, callbackUrl) ==
    [kind |-> "redirect", to |-> to, callbackUrl |-> callbackUrl]

isPublicRoute(pathname) ==
    \E route \in publicRoutes :
        pathname = route \/ StartsWith(pathname, route \o Slash)

\* faulty variant: a signed-in visitor of a login page is sent to the register page
middlewareToRegister(pathname, token) ==
    IF StartsWith(pathname, ApiAuth) THEN GuardNext
    ELSE IF token = "throws" THEN GuardNext
    ELSE IF token = "null" /\ ~isPublicRoute(pathname)
    THEN GuardRedirect(AuthLogin, Some(EncodeURI(pathname)))
    ELSE IF /\ token = "token"
            /\ \/ StartsWith(pathname, AuthLogin)
               \/ StartsWith(pathname, AuthRegister)
    THEN GuardRedirect(AuthRegister, None)
    ELSE GuardNext

\* middleware(request) of src/frontend/src/middleware.ts; the callbackUrl is
\* the request's URL after encodeURI
middleware(pathname, token) ==
    IF StartsWith(pathname, ApiAuth) THEN GuardNext
    ELSE IF token = "throws" THEN GuardNext
    ELSE IF token = "null" /\ ~isPublicRoute(pathname)
    THEN GuardRedirect(AuthLogin, Some(EncodeURI(pathname)))
    ELSE IF /\ token = "token"
            /\ \/ StartsWith(pathname, AuthLogin)
               \/ StartsWith(pathname, AuthRegister)
    THEN GuardRedirect(Home, None)
    ELSE GuardNext

isPublicPath(pathname) ==
    \E publicPath \in publicPaths :
        pathname = publicPath \/ StartsWith(pathname, publicPath \o Slash)
isProtectedPath(pathname) ==
    \E protectedPath \in protectedPaths :
        pathname = protectedPath
        \/ StartsWith(pathname, protectedPath \o Slash)

\* middleware(req) of src/frontend/middleware.ts: getToken is called in two
\* places and nothing catches what it throws
middlewareRoot(pathname, token) ==
    IF isPublicPath(pathname)
    THEN IF pathname \in {AuthLogin, AuthRegister} /\ pathname # Home
         THEN IF token = "throws" THEN GuardError
              ELSE IF token = "token" THEN GuardRedirect(Dashboard, None)
              ELSE GuardNext
         ELSE GuardNext
    ELSE IF isProtectedPath(pathname)
    THEN IF token = "throws" THEN GuardError
         ELSE IF token = "null"
         THEN GuardRedirect(AuthLogin, Some(pathname))
         ELSE GuardNext
    ELSE GuardNext

\* the browser asks for a page; its session does not change on the way
Navigate ==
    /\ nav.at = "idle"
    /\ \E guard \in {"src", "root"}, token \in TokenResults,
          start \in Paths :
        /\ Matcher(guard, start)
        /\ nav' = [NoNav EXCEPT !.at = "request", !.guard = guard,
                                !.auth = token, !.start = start,
                                !.path = start]
    /\ UNCHANGED <<backend, api, session, mw>>

\* the answer of a guard to the request, and the browser following a redirect
Guarded(g) ==
    IF g.kind = "redirect"
    THEN /\ nav.redirects < MaxRedirects
         /\ nav' = [nav EXCEPT !.path = g.to, !.callbackUrl = g.callbackUrl,
                               !.redirects = nav.redirects + 1]
    ELSE nav' = [nav EXCEPT !.at = g.kind]

Middleware ==
    /\ nav.at = "request" /\ nav.guard = "src"
    /\ Guarded(middleware(nav.path, nav.auth))
    /\ UNCHANGED <<backend, api, session, mw>>

MiddlewareRoot ==
    /\ nav.at = "request" /\ nav.guard = "root"
    /\ Guarded(middlewareRoot(nav.path, nav.auth))
    /\ UNCHANGED <<backend, api, session, mw>>

(* ------------------------------------------------ awaited external calls *)
\* POST /google-login up to its first await: googleClient.verifyIdToken is
\* called without a timeout and the handler waits for its promise
VerifyIdTokenCall(r) ==
    /\ CanStart(r)
    /\ req' = [req EXCEPT ![r] =
          [NoReq EXCEPT !.op = "google", !.ctl = "loginWithGoogle"]]
    /\ pc' = [pc EXCEPT ![r] = "verifyIdToken"]
    /\ UNCHANGED <<users, nextId, nowMs, ticks, found, resp, frontend, mw>>

\* Google answers with the payload of the identity token
VerifyIdTokenAnswer(r) ==
    /\ pc[r] = "verifyIdToken"
    /\ \E email \in GoogleEmails, payload \in GooglePayloads :
        /\ email = NoEmail => payload.name = <<>>
        /\ req' = [req EXCEPT ![r].email = email, ![r].name = payload.name,
                              ![r].avatar = payload.picture]
    /\ pc' = [pc EXCEPT ![r] = "verified"]
    /\ UNCHANGED <<users, nextId, nowMs, ticks, found, resp, frontend, mw>>

\* the handler goes on behind the await
LoginWithGoogleResume(r) ==
    /\ pc[r] = "verified"
    /\ GoogleLookupOf(r, req[r].email,
                      [name |-> req[r].name, picture |-> req[r].avatar])
    /\ UNCHANGED <<users, nextId, nowMs, ticks, frontend, mw>>

\* POST /login up to the first await of loginUser: prisma.users.findUnique
\* is called without a timeout
FindUniqueCall(r) ==
    /\ CanStart(r)
    /\ \E email \in Emails, password \in LoginPasswords :
        req' = [req EXCEPT ![r] =
            [NoReq EXCEPT !.op = "login", !.ctl = "login", !.email = email,
                          !.password = password]]
    /\ pc' = [pc EXCEPT ![r] = "findUnique"]
    /\ UNCHANGED <<users, nextId, nowMs, ticks, found, resp, frontend, mw>>

\* the store answers the query
FindUniqueAnswer(r) ==
    /\ pc[r] = "findUnique"
    /\ found' = [found EXCEPT ![r] = FindByEmail(req[r].email)]
    /\ pc' = [pc EXCEPT ![r] = "found"]
    /\ UNCHANGED <<users, nextId, nowMs, ticks, req, resp, frontend, mw>>

\* loginUser and its controller go on behind the await
LoginResume(r) ==
    /\ pc[r] = "found"
    /\ Finish(r, login(req[r].email, req[r].password))
    /\ UNCHANGED <<users, nextId, nowMs, ticks, req, found, frontend, mw>>

(* ----------------------------------------------------------- API client *)
\* the statuses the API answers a call with
Statuses == {200, 401, 403, 500}

\* faulty variant: on a 401 the interceptor sends the request again
onRejectedReissue(call) ==
    IF call.status = 401 /\ ~call.retry
    THEN [call |-> [call EXCEPT !.at = "sent", !.retry = TRUE,
                                !.sent = call.sent + 1],
          signOut |-> FALSE]
    ELSE [call |-> [call EXCEPT !.at = "rejected", !.rejected = "ApiError"],
          signOut |-> FALSE]

\* the rejection handler of api.interceptors.response: on a 401 of a request
\* not marked _retry it marks it, awaits signOut, sets window.location.href
\* and rejects with the error; any other error is rejected as an ApiError
onRejected(call) ==
    IF call.status = 401 /\ ~call.retry
    THEN [call |-> [call EXCEPT !.at = "rejected", !.retry = TRUE,
                                !.signOuts = call.signOuts + 1,
                                !.redirects = call.redirects + 1,
                                !.rejected = "AxiosError"],
          signOut |-> TRUE]
    ELSE [call |-> [call EXCEPT !.at = "rejected", !.rejected = "ApiError"],
          signOut |-> FALSE]

\* api.request(config): a call is sent with a config of its own
ApiRequest(c) ==
    /\ api.calls[c].at = "idle"
    /\ api' = [api EXCEPT !.calls[c].at = "sent", !.calls[c].sent = 1]
    /\ UNCHANGED <<backend, nav, session, mw>>

\* the API answers
ApiResponse(c) ==
    /\ api.calls[c].at = "sent"
    /\ \E status \in Statuses :
        api' = [api EXCEPT !.calls[c].at = "answered",
                           !.calls[c].status = status]
    /\ UNCHANGED <<backend, nav, session, mw>>

\* the response interceptor runs on the answer
Interceptor(c) ==
    /\ api.calls[c].at = "answered"
    /\ IF api.calls[c].status = 200
       THEN api' = [api EXCEPT !.calls[c].at = "resolved"]
       ELSE LET h == onRejected(api.calls[c])
            IN  api' = [calls |-> [api.calls EXCEPT ![c] = h.call],
                        signedIn |-> api.signedIn /\ ~h.signOut,
                        location |-> IF h.signOut THEN "/auth/login"
                                     ELSE api.location]
    /\ UNCHANGED <<backend, nav, session, mw>>

(* ---------------------------------------------------- NextAuth callbacks *)
\* what authorize returns for a login the API accepted: role is
\* user.role || 'USER', name is user.name || null
AuthorizedUsers ==
    {[id |-> "1", email |-> "a@x", name |-> Some("Ana"), role |-> "ADMIN",
      accessToken |-> "t1"],
     [id |-> "2", email |-> "b@x", name |-> None, role |-> "USER",
      accessToken |-> "t2"],
     [id |-> "3", email |-> "c@x", name |-> Some("Cy"), role |-> "USER",
      accessToken |-> "t3"]}

\* the data a client hands to update(data) of useSession: nothing, or an
\* object with any of the keys id, role, name, accessToken
SessionUpdates ==
    {None} \cup
    {Some([id |-> i, role |-> r, name |-> n, accessToken |-> t]) :
        i \in {None, Some("1"), Some("2"), Some("3")},
        r \in {None, Some("USER"), Some("ADMIN")},
        n \in {None, Some("Eve")},
        t \in {None, Some("t1")}}

\* the token NextAuth builds from the user before the jwt callback
DefaultToken(user) ==
    [id |-> "", email |-> user.email, name |-> user.name, role |-> "",
     accessToken |-> ""]

\* callbacks.jwt({token, user, trigger, session})
jwt(token, user, trigger, data) ==
    IF user # None
    THEN [token EXCEPT !.id = user[1].id,
                       !.email = user[1].email,
                       !.name = IF user[1].name # None THEN user[1].name
                                ELSE token.name,
                       !.role = IF user[1].role # "" THEN user[1].role
                                ELSE "USER",
                       !.accessToken = user[1].accessToken]
    ELSE IF trigger = "update" /\ data # None
    THEN [token EXCEPT !.id = IF data[1].id # None THEN data[1].id[1] ELSE @,
                       !.role = IF data[1].role # None THEN data[1].role[1]
                                ELSE @,
                       !.name = IF data[1].name # None THEN data[1].name
                                ELSE @,
                       !.accessToken = IF data[1].accessToken # None
                                       THEN data[1].accessToken[1] ELSE @]
    ELSE token

\* callbacks.session({session, token}): session.user and
\* session.accessToken as the browser sees them
sessionCallback(token) ==
    [id |-> token.id, name |-> token.name, email |-> token.email,
     role |-> IF token.role # "" THEN token.role ELSE "USER",
     accessToken |-> token.accessToken]

\* a sign-in with credentials: authorize, then jwt with the user
SignIn ==
    /\ session.at = "signedOut"
    /\ \E user \in AuthorizedUsers :
        LET token == jwt(DefaultToken(user), Some(user), "signIn", None)
        IN  session' = [at |-> "signedIn", token |-> Some(token),
                        shown |-> None,
                        signedInAs |-> Some([id |-> token.id,
                                             role |-> token.role])]
    /\ UNCHANGED <<backend, api, nav, mw>>

\* the session is read: jwt without user and trigger, then session
GetSession ==
    /\ session.at = "signedIn"
    /\ LET token == jwt(session.token[1], None, "", None)
       IN  session' = [session EXCEPT !.token = Some(token),
                                      !.shown = Some(sessionCallback(token))]
    /\ UNCHANGED <<backend, api, nav, mw>>

\* the client calls update(data): jwt with trigger 'update', then session
UpdateSession ==
    /\ session.at = "signedIn"
    /\ \E data \in SessionUpdates :
        LET token == jwt(session.token[1], None, "update", data)
        IN  session' = [session EXCEPT
                            !.token = Some(token),
                            !.shown = Some(sessionCallback(token))]
    /\ UNCHANGED <<backend, api, nav, mw>>

(* ---------------------------------------------------------------- clock *)
\* the clock passes the instants around the expiry of a token issued at the
\* start: the last second before it, then on in steps of one second
TickMs(n) == IF n = 0 THEN (ExpiresInSeconds - 1) * 1000 ELSE 1000

Tick ==
    /\ ticks < MaxTicks
    /\ nowMs' = nowMs + TickMs(ticks)
    /\ ticks' = ticks + 1
    /\ UNCHANGED <<users, nextId, pc, req, found, resp, frontend, mw>>

Next ==
    \/ \E r \in Reqs : RegisterLookup(r)
    \/ \E r \in Reqs : RegisterCreate(r)
    \/ \E r \in Reqs : Login(r)
    \/ \E r \in Reqs : ResetLookup(r)
    \/ \E r \in Reqs : ResetUpdate(r)
    \/ \E r \in Reqs : GoogleLookup(r)
    \/ \E r \in Reqs : GoogleCreate(r)
    \/ \E r \in Reqs : GoogleUpdate(r)
    \/ \E r \in Reqs : Logout(r)
    \/ \E r \in Reqs : GetUserProfile(r)
    \/ \E r \in Reqs : GetProfile(r)
    \/ Tick

Spec == Init /\ [][Next]_vars

\* the two logins with their awaits apart: Node runs what stands behind an
\* await once its promise is settled; nothing makes Google or the store
\* answer
NextAwait ==
    \/ \E r \in Reqs : VerifyIdTokenCall(r)
    \/ \E r \in Reqs : VerifyIdTokenAnswer(r)
    \/ \E r \in Reqs : LoginWithGoogleResume(r)
    \/ \E r \in Reqs : GoogleCreate(r)
    \/ \E r \in Reqs : GoogleUpdate(r)
    \/ \E r \in Reqs : FindUniqueCall(r)
    \/ \E r \in Reqs : FindUniqueAnswer(r)
    \/ \E r \in Reqs : LoginResume(r)
SpecAwait ==
    /\ Init /\ [][NextAwait]_vars
    /\ \A r \in Reqs :
        /\ WF_vars(LoginWithGoogleResume(r))
        /\ WF_vars(GoogleCreate(r))
        /\ WF_vars(GoogleUpdate(r))
        /\ WF_vars(LoginResume(r))

\* the calls of a page of the browser
NextApi ==
    \/ \E c \in 1..MaxCalls : ApiRequest(c)
    \/ \E c \in 1..MaxCalls : ApiResponse(c)
    \/ \E c \in 1..MaxCalls : Interceptor(c)
SpecApi == Init /\ [][NextApi]_vars

\* a NextAuth session from sign-in on
NextSession == SignIn \/ GetSession \/ UpdateSession
SpecSession == Init /\ [][NextSession]_vars

\* navigations through the two route guards
NextGuard == Navigate \/ Middleware \/ MiddlewareRoot
SpecGuard == Init /\ [][NextGuard]_vars

\* the middlewares on requests of any shape, around the expiry of a token
NextMiddleware == Authenticate \/ IsOwnerOrAdmin \/ Tick
SpecMiddleware == Init /\ [][NextMiddleware]_vars
(* ------------------------------------------------------------ properties *)
Done(r) == pc[r] = "done"

\* request r takes its single step in this transition
Runs(r) == pc[r] = "idle" /\ pc'[r] = "done"

\* request q has created the record of this email
Created(q, email) ==
    /\ Done(q) /\ resp[q].ok /\ req[q].email = email /\ found[q] = None
    /\ req[q].op \in {"register", "google"}

\* request q has overwritten the password of this email
HasReset(q, email) ==
    Done(q) /\ resp[q].ok /\ req[q].op = "reset" /\ req[q].email = email

\* request r is a login that reached loginUser (loginHandler answers an
\* empty password itself)
CallsLoginUser(r) ==
    req[r].op = "login" /\ (req[r].ctl = "login" \/ req[r].password # "")

\* C1: a registration of an email that is not in the store (and that no
\* other request creates meanwhile) succeeds with a token, and every later
\* login with the same email and password, with no password reset for that
\* email in between, succeeds and returns a token.
C1_RegisterThenLogin ==
    /\ [](\A r \in Reqs :
            (/\ Done(r) /\ req[r].op = "register" /\ found[r] = None
             /\ \A q \in Reqs \ {r} : ~Created(q, req[r].email))
            => (resp[r].ok /\ resp[r].status = 201
                /\ resp[r].token.kind = "jwt"))
    /\ [][\A l \in Reqs :
            (/\ Runs(l) /\ CallsLoginUser(l)'
             /\ \E g \in Reqs :
                  /\ Done(g) /\ req[g].op = "register" /\ resp[g].ok
                  /\ req[g].email = req'[l].email
                  /\ req[g].password = req'[l].password
             /\ \A x \in Reqs : ~HasReset(x, req'[l].email))
            => (resp'[l].ok /\ resp'[l].status = 200
                /\ resp'[l].token.kind = "jwt")]_vars

C1_Witness ==
    \E g, l \in Reqs :
        /\ Done(g) /\ req[g].op = "register" /\ resp[g].ok
        /\ Done(l) /\ req[l].op = "login" /\ resp[l].ok
        /\ req[l].email = req[g].email /\ req[l].password = req[g].password

\* two registrations of one email that both looked the email up before
\* either created it, the email being created by none but them
Raced(r1, r2) ==
    /\ r1 # r2 /\ Done(r1) /\ Done(r2)
    /\ req[r1].op = "register" /\ req[r2].op = "register"
    /\ req[r1].email = req[r2].email
    /\ found[r1] = None /\ found[r2] = None
    /\ \A q \in Reqs \ {r1, r2} : ~Created(q, req[r1].email)

\* C2: of two concurrent registrations of one unregistered email exactly
\* one answers 201, in every interleaving, and the store holds exactly one
\* record for the email.
C2_OneWinner ==
    \A r1, r2 \in Reqs :
        Raced(r1, r2) =>
            /\ (resp[r1].status = 201) # (resp[r2].status = 201)
            /\ resp[r1].ok # resp[r2].ok
            /\ Cardinality({u \in users : u.email = req[r1].email}) = 1

C2_Witness == \E r1, r2 \in Reqs : Raced(r1, r2)

\* C3: the loser of that race fails with EmailAlreadyExists, status 400,
\* as a sequential duplicate registration does.
C3_LoserEmailAlreadyExists ==
    \A r1, r2 \in Reqs :
        (Raced(r1, r2) /\ ~resp[r2].ok) =>
            /\ resp[r2].status = 400
            /\ resp[r2].message = EMAIL_ALREADY_EXISTS

\* C4: registerUser for an email that has a record, under any provider,
\* fails with EmailAlreadyExists (400), issues no token and leaves the
\* store unchanged.
C4_DuplicateRegister ==
    [][\A r \in Reqs :
        (/\ pc[r] = "idle" /\ req'[r].op = "register"
         /\ \E u \in users : u.email = req'[r].email)
        => (/\ pc'[r] = "done" /\ ~resp'[r].ok
            /\ resp'[r].status = 400 /\ resp'[r].type = "AUTH_ERROR"
            /\ resp'[r].message = EMAIL_ALREADY_EXISTS
            /\ resp'[r].token = NoToken /\ resp'[r].cookie = None
            /\ users' = users)]_vars

C4_Witness ==
    \E r \in Reqs :
        /\ Done(r) /\ req[r].op = "register" /\ resp[r].status = 400
        /\ found[r] # None /\ found[r][1].auth_provider = "GOOGLE"

\* C5: findOrCreateGoogleUser for an email whose record is LOCAL fails with
\* AccountExistsWithDifferentProvider, issues no token and leaves the store
\* as it was.
C5_GoogleOnLocal ==
    [][\A r \in Reqs :
        (/\ pc[r] = "idle" /\ req'[r].op = "google"
         /\ \E u \in users : u.email = req'[r].email
                             /\ u.auth_provider = "LOCAL")
        => (/\ pc'[r] = "done" /\ ~resp'[r].ok
            /\ resp'[r].err.message = OTHER_PROVIDER
            /\ resp'[r].err.errorType = "AUTH_ERROR"
            /\ resp'[r].token = NoToken /\ resp'[r].cookie = None
            /\ users' = users)]_vars

C5_Witness ==
    \E r \in Reqs :
        /\ Done(r) /\ req[r].op = "google" /\ ~resp[r].ok
        /\ found[r] # None /\ found[r][1].auth_provider = "LOCAL"

\* C6: loginUser for an email whose record is not LOCAL fails with the
\* wrong-provider error whatever the password, the empty one included,
\* issues no token and leaves the record as it was.
C6_LoginWrongProvider ==
    [][\A r \in Reqs :
        (/\ Runs(r) /\ CallsLoginUser(r)'
         /\ \E u \in users : u.email = req'[r].email
                             /\ u.auth_provider # "LOCAL")
        => (/\ ~resp'[r].ok /\ resp'[r].err.message = WRONG_PROVIDER
            /\ resp'[r].err.statusCode = 401
            /\ resp'[r].token = NoToken /\ resp'[r].cookie = None
            /\ users' = users)]_vars

C6_Witness ==
    \E r \in Reqs :
        /\ Done(r) /\ req[r].op = "login" /\ req[r].password = ""
        /\ found[r] # None /\ found[r][1].auth_provider = "GOOGLE"
        /\ resp[r].err.message = WRONG_PROVIDER

\* C7: a record keeps the auth provider (and the id and email) it was
\* created with, whatever operation runs, and no id has two records.
C7_ProviderFixed ==
    /\ [](\A u, v \in users : u.id = v.id => u = v)
    /\ [][\A u \in users : \E v \in users' :
            /\ v.id = u.id /\ v.email = u.email
            /\ v.auth_provider = u.auth_provider]_vars

C7_Witness ==
    /\ \E u \in users : u.auth_provider = "LOCAL"
                        /\ u.updated_at # u.created_at
    /\ \E r \in Reqs : Done(r) /\ req[r].op = "google" /\ resp[r].ok

\* login l failed in loginUser on a wrong password for a LOCAL account
WrongPassword(l) ==
    /\ Done(l) /\ CallsLoginUser(l) /\ ~resp[l].ok
    /\ found[l] # None /\ found[l][1].auth_provider = "LOCAL"

\* login l failed in loginUser because the email has no account
NoAccount(l) == Done(l) /\ CallsLoginUser(l) /\ found[l] = None

\* C8: a login with a wrong password for a LOCAL account is answered with
\* the same HTTP status and envelope error.type as a login with an email
\* that has no account.
C8_SameErrorType ==
    \A l1, l2 \in Reqs :
        (WrongPassword(l1) /\ NoAccount(l2)) =>
            /\ resp[l1].status = resp[l2].status
            /\ resp[l1].type = resp[l2].type

C8_Witness ==
    \E l1, l2 \in Reqs :
        /\ WrongPassword(l1) /\ NoAccount(l2)
        /\ req[l1].ctl = "loginHandler" /\ req[l2].ctl = "loginHandler"

\* C9: no user object returned by registerUser, loginUser,
\* findOrCreateGoogleUser or getUserProfile has a password_hash field.
C9_NoPasswordHash ==
    \A r \in Reqs :
        resp[r].user # None => "password_hash" \notin DOMAIN resp[r].user[1]

\* the credential by which profile request p authenticates, when it
\* presents exactly one
SoleCredential(p) ==
    IF req[p].header # None /\ req[p].cookie = None
    THEN Some(req[p].header[1].cred)
    ELSE IF req[p].header = None THEN req[p].cookie ELSE None

\* C10: the token generateToken made for a user, presented to authenticate
\* before its expiry, is accepted and attaches the user's id as a string
\* and the user's role to the request.
C10_VerifyIssued ==
    [][\A p, q \in Reqs :
        (/\ Runs(p) /\ req'[p].ctl = "getProfile"
         /\ Done(q) /\ resp[q].ok /\ resp[q].token.kind = "jwt"
         /\ SoleCredential(p)' = Some([json |-> FALSE, token |-> resp[q].token])
         /\ NowSec < resp[q].token.iat + ExpiresInSeconds)
        => (/\ resp'[p].reqUser # None
            /\ resp'[p].reqUser[1].userId = ToString(resp[q].user[1].id)
            /\ resp'[p].reqUser[1].role = resp[q].user[1].role)]_vars

C10_Witness ==
    \E p, q \in Reqs :
        /\ Done(p) /\ req[p].ctl = "getProfile" /\ resp[p].reqUser # None
        /\ Done(q) /\ resp[q].ok
        /\ req[p].header = Some([scheme |-> "Bearer",
                                 cred |-> [json |-> FALSE,
                                           token |-> resp[q].token]])
        /\ resp[q].user[1].role = "ADMIN"
        /\ NowSec = resp[q].token.iat + ExpiresInSeconds - 1

\* request p, behind authenticate, presents exactly one credential, a token
\* signed with the server's secret
WellSigned(p) ==
    /\ req[p].ctl \in {"getProfile", "logout"} /\ SoleCredential(p) # None
    /\ ~SoleCredential(p)[1].json
    /\ SoleCredential(p)[1].token.kind = "jwt"
    /\ SoleCredential(p)[1].token.secret = JWT_SECRET

\* C11: a correctly signed token presented to authenticate at or after its
\* expiry, seven days after issuance, is rejected with 401 'Token
\* expirado': it is neither reported as invalid nor accepted.
C11_ExpiredRejected ==
    [][\A p \in Reqs :
        (/\ Runs(p) /\ WellSigned(p)'
         /\ NowSec >= SoleCredential(p)'[1].token.iat + ExpiresInSeconds)
        => (/\ resp'[p].reqUser = None /\ ~resp'[p].ok
            /\ resp'[p].status = 401 /\ resp'[p].type = "UNAUTHORIZED"
            /\ resp'[p].message = "Token expirado")]_vars

C11_Witness ==
    \E p \in Reqs :
        /\ Done(p) /\ WellSigned(p) /\ req[p].cookie # None
        /\ req[p].cookie[1].token \in {resp[q].token : q \in Reqs}
        /\ NowSec = req[p].cookie[1].token.iat + ExpiresInSeconds
        /\ resp[p].message = "Token expirado"

\* why the single credential of finished profile request p was rejected: a
\* well signed token is rejected for its expiry only
RejectionKind(p) ==
    IF ~Done(p) \/ req[p].ctl # "getProfile" \/ SoleCredential(p) = None
    THEN "none"
    ELSE IF SoleCredential(p)[1].json
            \/ SoleCredential(p)[1].token.kind # "jwt" THEN "Malformed"
    ELSE IF SoleCredential(p)[1].token.secret # JWT_SECRET THEN "Invalid"
    ELSE IF resp[p].reqUser = None THEN "Expired"
    ELSE "none"

\* what the caller of authenticate sees of a rejection
Rejection(p) == <<resp[p].status, resp[p].type, resp[p].message>>

\* C12 as stated: rejections for bad signature, for expiry and for
\* malformed structure are pairwise different for the caller.
C12_PairwiseDistinct ==
    \A p1, p2 \in Reqs :
        (/\ RejectionKind(p1) # "none" /\ RejectionKind(p2) # "none"
         /\ RejectionKind(p1) # RejectionKind(p2))
        => Rejection(p1) # Rejection(p2)

\* C12 amended: the rejection for expiry differs from the rejection for a
\* bad signature and from the one for malformed structure; those two are
\* the same rejection, 401 'Token invalido'.
C12_ExpiredDistinct ==
    \A p1, p2 \in Reqs :
        /\ (RejectionKind(p1) = "Expired"
            /\ RejectionKind(p2) \in {"Invalid", "Malformed"})
           => /\ Rejection(p1) # Rejection(p2)
              /\ resp[p1].message # resp[p2].message
        /\ (RejectionKind(p1) \in {"Invalid", "Malformed"}
            /\ RejectionKind(p2) \in {"Invalid", "Malformed"})
           => /\ Rejection(p1) = Rejection(p2)
              /\ resp[p1].message = "Token invalido"

C12_Witness ==
    \E p1, p2 \in Reqs :
        /\ RejectionKind(p1) = "Expired" /\ RejectionKind(p2) = "Invalid"
        /\ req[p2].header[1].cred.token.userId
             = req[p1].header[1].cred.token.userId

\* C13: once resetUserPassword(email, newPassword) has succeeded for a
\* LOCAL account, loginUser with the new password succeeds and loginUser
\* with another password, the previous one included, fails; the reset
\* answers without a token and without a cookie.
C13_ResetThenLogin ==
    /\ [](\A x \in Reqs :
            (Done(x) /\ req[x].op = "reset")
            => (resp[x].token = NoToken /\ resp[x].cookie = None
                /\ resp[x].user = None))
    /\ [][\A l \in Reqs :
            (/\ Runs(l) /\ CallsLoginUser(l)'
             /\ \E x \in Reqs : HasReset(x, req'[l].email))
            => /\ (\A x \in Reqs : HasReset(x, req'[l].email)
                                    => req[x].password = req'[l].password)
                  => (resp'[l].ok /\ resp'[l].token.kind = "jwt")
               /\ (\A x \in Reqs : HasReset(x, req'[l].email)
                                    => req[x].password # req'[l].password)
                  => (~resp'[l].ok /\ resp'[l].status = 401
                      /\ resp'[l].token = NoToken)]_vars

C13_Witness ==
    \E x, l \in Reqs :
        /\ HasReset(x, req[l].email)
        /\ found[x][1].password_hash[2] # req[x].password
        /\ Done(l) /\ req[l].op = "login" /\ req[l].password = req[x].password
        /\ found[l][1].password_hash[2] = req[x].password
        /\ resp[l].ok /\ resp[l].token.kind = "jwt"

\* C14: resetUserPassword for an email without a record, or with a record
\* whose provider is not LOCAL, fails with 404 and leaves every record as
\* it was; the password hash of an OAuth-only account stays the empty one.
C14_ResetNotLocal ==
    /\ [](\A u \in users :
            u.auth_provider # "LOCAL" => u.password_hash = EmptyHash)
    /\ [][\A r \in Reqs :
            (/\ pc[r] = "idle" /\ req'[r].op = "reset"
             /\ \A u \in users : u.email = req'[r].email
                                  => u.auth_provider # "LOCAL")
            => (/\ pc'[r] = "done" /\ ~resp'[r].ok
                /\ resp'[r].status = 404
                /\ resp'[r].err.message
                     = "Usuario no encontrado o no usa autenticacion local"
                /\ resp'[r].token = NoToken
                /\ users' = users)]_vars

C14_Witness ==
    \E r \in Reqs :
        /\ Done(r) /\ req[r].op = "reset" /\ resp[r].status = 404
        /\ found[r] # None /\ found[r][1].auth_provider = "GOOGLE"
        /\ \E u \in users : u.email = req[r].email
                              /\ u.password_hash = EmptyHash

\* request q was answered with success by one of the handlers that set the
\* 'token' cookie
SetCookie(q) ==
    /\ Done(q) /\ resp[q].ok /\ resp[q].cookie # None
    /\ req[q].ctl \in {"registerHandler", "loginHandler", "loginWithGoogle"}

\* C15: a request that presents only the 'token' cookie a successful
\* register, login or google-login has set, before the token expires,
\* passes authenticate with the id and the role of that user.
C15_CookieCarriesToken ==
    [][\A p, q \in Reqs :
        (/\ Runs(p) /\ req'[p].ctl = "getProfile" /\ SetCookie(q)
         /\ req'[p].header = None /\ req'[p].cookie = resp[q].cookie
         /\ NowSec < resp[q].token.iat + ExpiresInSeconds)
        => (/\ resp'[p].reqUser # None
            /\ resp'[p].reqUser[1].userId = ToString(resp[q].user[1].id)
            /\ resp'[p].reqUser[1].role = resp[q].user[1].role)]_vars

\* the credential authenticate reads from request q: the Bearer header
\* when there is one, else the cookie
Presented(q) == IF req[q].header # None THEN Some(req[q].header[1].cred)
                ELSE req[q].cookie

\* token t was presented to a POST /logout that answered 200
LoggedOut(t) ==
    \E q \in Reqs : /\ Done(q) /\ req[q].op = "logout" /\ resp[q].ok
                     /\ Presented(q) = Some([json |-> FALSE, token |-> t])

\* the password of the subject of token t has been reset
SubjectReset(t) ==
    \E x \in Reqs, u \in users :
        HasReset(x, u.email) /\ ToString(u.id) = t.userId

\* C16: a token the server issued is accepted by authenticate at every
\* instant before its expiry, also after it was presented to POST /logout
\* and after the password of its subject was reset.
C16_NoRevocation ==
    [][\A p \in Reqs :
        (/\ Runs(p) /\ WellSigned(p)'
         /\ SoleCredential(p)'[1].token \in IssuedTokens
         /\ NowSec < SoleCredential(p)'[1].token.exp
         /\ \/ LoggedOut(SoleCredential(p)'[1].token)
            \/ SubjectReset(SoleCredential(p)'[1].token))
        => (/\ resp'[p].reqUser # None
            /\ resp'[p].reqUser[1].userId
                 = SoleCredential(p)'[1].token.userId
            /\ resp'[p].message # "Token invalido"
            /\ resp'[p].message # "Token expirado")]_vars

C16_Witness ==
    \E p, q \in Reqs :
        /\ q < p /\ Done(q) /\ req[q].op = "logout" /\ resp[q].ok
        /\ req[q].header # None /\ req[q].cookie = None
        /\ Done(p) /\ req[p].ctl = "getProfile" /\ req[p].cookie = None
        /\ req[p].header = req[q].header
        /\ resp[p].reqUser # None
        /\ NowSec = req[p].header[1].cred.token.exp - 1

\* google login r ends with success in this step, for an account that its
\* lookup found
GoogleLoginEnds(r) ==
    /\ pc[r] \in {"idle", "google_update"} /\ pc'[r] = "done"
    /\ req'[r].op = "google" /\ resp'[r].ok /\ found'[r] # None

Backfills(r) ==
    \/ found[r][1].name = <<>> \/ found[r][1].name = UsuarioDeGoogle
    \/ ~Truthy(found[r][1].avatar_url) /\ Truthy(req[r].avatar)

StaleWrite(u) ==
    \E r \in Reqs : /\ pc[r] = "google_update" /\ pc'[r] = "done"
                     /\ found[r][1].id = u.id /\ found[r][1] # u

RegisterSteps(r) ==
    /\ req'[r].op = "register" /\ pc[r] \in {"idle", "reg_create"}
    /\ pc'[r] # pc[r]

C20_EmailsNormalized ==
    \A u \in users : u.email = NormalizeEmail(u.email)

\* C23: a google-login with a verified identity whose email has an account
\* of another provider is answered with an AuthError, status 400 or 401,
\* and not with status 500.
C23_OtherProviderAuthError ==
    \A r \in Reqs :
        (/\ Done(r) /\ req[r].op = "google" /\ found[r] # None
         /\ found[r][1].auth_provider # "GOOGLE")
        => (resp[r].status \in {400, 401} /\ resp[r].type = "AUTH_ERROR")

\* C25: whenever loginUser rejects with an AUTH_ERROR, loginHandler answers
\* 401 UNAUTHORIZED with the one message 'Correo o contrasena incorrectos'.
C25_SingleLoginMessage ==
    \A l \in Reqs :
        (/\ Done(l) /\ req[l].op = "login" /\ req[l].ctl = "loginHandler"
         /\ resp[l].err.errorType = "AUTH_ERROR")
        => (/\ resp[l].status = 401 /\ resp[l].type = "UNAUTHORIZED"
            /\ resp[l].message = "Correo o contrasena incorrectos")

\* two first Google logins of one email that both looked the email up
\* before either created it, the email being created by none but them
GoogleRaced(r1, r2) ==
    /\ r1 # r2 /\ Done(r1) /\ Done(r2)
    /\ req[r1].op = "google" /\ req[r2].op = "google"
    /\ req[r1].email = req[r2].email /\ req[r1].email # NoEmail
    /\ found[r1] = None /\ found[r2] = None
    /\ \A q \in Reqs \ {r1, r2} : ~Created(q, req[r1].email)

\* C28: two concurrent first Google logins of one unseen email both end
\* with 200 and a token for the same record, and the store holds exactly
\* one record for the email.
C28_BothGoogleLoginsSucceed ==
    \A r1, r2 \in Reqs :
        GoogleRaced(r1, r2) =>
            /\ resp[r1].status = 200 /\ resp[r2].status = 200
            /\ resp[r1].token.kind = "jwt"
            /\ resp[r1].token.userId = resp[r2].token.userId
            /\ Cardinality({u \in users : u.email = req[r1].email}) = 1

\* C27: isOwnerOrAdmin(field) lets a request proceed only if it carries an
\* authenticated user who is ADMIN or whose userId equals the route
\* parameter named by field; all others get 403 FORBIDDEN
C27_OnlyOwnerOrAdmin ==
    (mw.at = "done" /\ mw.fn = "isOwnerOrAdmin") =>
        IF /\ mw.reqUser # None
           /\ \/ mw.reqUser[1].role = "ADMIN"
              \/ Some(mw.reqUser[1].userId) = mw.param
        THEN mw.err = NoErr
        ELSE mw.err.statusCode = 403 /\ mw.err.errorType = "FORBIDDEN"

\* a credential that is a token jwt.verify accepts now
ValidNow(cred) ==
    cred # None /\ cred # Some(EmptyCred) /\ JwtVerify(cred[1]) = ""
\* what the Authorization header carries behind 'Bearer '
OfHeader(header) == IF header = None THEN None ELSE Some(header[1].cred)
NoTokenProvided(m) ==
    m.err.message = "No se proporciono un token de autenticacion"
AuthenticateStep == mw.at = "idle" /\ mw'.fn = "authenticate"

\* C26: authenticate accepts a request whenever a valid unexpired token is
\* in the Bearer header or in the 'token' cookie, and reports 'no token
\* provided' only when neither of the two carries a token
C26_EitherSource ==
    [][AuthenticateStep =>
        /\ (ValidNow(OfHeader(mw'.header)) \/ ValidNow(mw'.cookie))
               => mw'.reqUser # None
        /\ NoTokenProvided(mw')
               => /\ OfHeader(mw'.header) \in {None, Some(EmptyCred)}
                  /\ mw'.cookie = None]_vars

\* C26 as the code has it: the token is read from the Bearer header when that
\* header is present and from the cookie only otherwise; the request is
\* accepted exactly when the token read is valid and unexpired, and 'no token
\* provided' is reported exactly when the token read is empty
C26_HeaderFirst ==
    [][AuthenticateStep =>
        LET read == IF mw'.header # None THEN OfHeader(mw'.header)
                    ELSE mw'.cookie
        IN  /\ mw'.reqUser # None <=> ValidNow(read)
            /\ NoTokenProvided(mw') <=> read \in {None, Some(EmptyCred)}]_vars

\* a request with a bad Bearer token and a valid cookie has been refused
C26_Witness ==
    /\ mw.fn = "authenticate" /\ mw.at = "done"
    /\ mw.header # None /\ ~ValidNow(OfHeader(mw.header))
    /\ ValidNow(mw.cookie)
    /\ mw.reqUser = None /\ mw.err.message = "Token invalido"

\* C22: the route guard never lets a request for a non-public path proceed
\* without a valid session token: every such request is redirected to
\* /auth/login with the original URL in callbackUrl
C22_NoPassWithoutToken ==
    (nav.guard = "src" /\ nav.auth # "token" /\ ~isPublicRoute(nav.start))
        => /\ nav.at # "next" \/ nav.path # nav.start
           /\ nav.redirects > 0
                  => nav.path = AuthLogin /\ nav.callbackUrl = Some(nav.start)

\* what the guard of a navigation answers for a path
GuardAnswer(guard, pathname, token) ==
    IF guard = "src" THEN middleware(pathname, token)
    ELSE middlewareRoot(pathname, token)

\* C30: for a fixed authentication state the target of every redirect of a
\* guard is a path that guard lets through (/auth/login without a token, /
\* or /dashboard with one), so a navigation ends after at most one redirect
C30_RedirectsEnd ==
    /\ nav.redirects <= 1
    /\ nav.redirects = 1 =>
          /\ GuardAnswer(nav.guard, nav.path, nav.auth).kind = "next"
          /\ nav.path = IF nav.auth = "null" THEN AuthLogin
                        ELSE IF nav.guard = "src" THEN Home
                        ELSE Dashboard

\* both guards have redirected, with and without a token, and let the target
\* through
C30_Witness ==
    /\ nav.at = "next" /\ nav.redirects = 1
    /\ nav.guard = "root" /\ nav.auth = "token" /\ nav.path = Dashboard

C29_RoleAndIdFixed ==
    session.at = "signedIn" =>
        /\ session.token[1].id = session.signedInAs[1].id
        /\ session.token[1].role = session.signedInAs[1].role
        /\ session.shown # None =>
              /\ session.shown[1].id = session.signedInAs[1].id
              /\ session.shown[1].role = session.signedInAs[1].role

\* C24: every auth request that was begun is answered in the end, also when
\* Google or the store never answers
C24_EveryRequestAnswered ==
    \A r \in Reqs : (pc[r] # "idle") ~> (pc[r] = "done")

====
